---------------------------- MODULE Spec2Model ----------------------------
(***************************************************************************)
(* Model of gpt_researcher/retrievers/bing/bing.py: the BingSearch         *)
(* retriever.  One BingSearch object is constructed from the process       *)
(* environment and its constructor arguments, and search() is called on    *)
(* it.  search() is modelled statement by statement; every remote call may *)
(* return or raise, and the content of the remote thread is whatever the   *)
(* service holds.                                                          *)
(***************************************************************************)
EXTENDS Naturals, Sequences, FiniteSets, TLC

VARIABLES
    environ,         \* os.environ after load_dotenv()
    args,            \* the constructor's arguments: query, query_domains
    thread_content,  \* what the service answers to messages.list
    state,           \* "start", "constructed" or "config_error"
    self,            \* the attributes of the BingSearch object
    collaborators,   \* the collaborator objects the constructor has built
    call             \* the frame of the call of search()

vars == <<environ, args, thread_content, state, self, collaborators, call>>

(***************************************************************************)
(* Python values.  A string is the sequence of its pieces of text, so that *)
(* concatenation is \o and "" is << >>.  An object is the record of the    *)
(* attributes it has: an attribute it lacks is not in the record's domain. *)
(***************************************************************************)
PyNone == [py |-> "None"]
PyStr(s) == [py |-> "str", s |-> s]
PyInt(i) == [py |-> "int", i |-> i]
PyList(l) == [py |-> "list", items |-> l]
PyTuple(l) == [py |-> "tuple", items |-> l]
PyDict(d) == [py |-> "dict", d |-> d]
PyObj(a) == [py |-> "object", attrs |-> a]

\* bool(v)
Truthy(v) ==
    CASE v.py = "None" -> FALSE
      [] v.py = "str" -> v.s # << >>
      [] v.py = "int" -> v.i # 0
      [] v.py = "list" -> v.items # << >>
      [] v.py = "tuple" -> v.items # << >>
      [] v.py = "dict" -> TRUE
      [] v.py = "object" -> TRUE

\* hasattr(v, name)
HasAttr(v, name) == v.py = "object" /\ name \in DOMAIN v.attrs

\* getattr(v, name, default)
GetAttr(v, name, default) == IF HasAttr(v, name) THEN v.attrs[name] ELSE default

\* sep.join(parts), on pieces of text
RECURSIVE Join(_, _)
Join(sep, parts) ==
    IF parts = << >> THEN << >>
    ELSE IF Len(parts) = 1 THEN parts[1]
    ELSE parts[1] \o sep \o Join(sep, Tail(parts))

\* repr(v) of a value inside a container
Repr(v) ==
    CASE v.py = "str" -> <<"'">> \o v.s \o <<"'">>
      [] v.py = "None" -> <<"None">>
      [] OTHER -> <<"<repr>">>

\* the text an f-string puts for {v}
Format(v) ==
    CASE v.py = "str" -> v.s
      [] v.py = "None" -> <<"None">>
      [] v.py = "tuple" ->
           <<"(">> \o Join(<<", ">>, [i \in DOMAIN v.items |-> Repr(v.items[i])])
                   \o (IF Len(v.items) = 1 THEN <<",">> ELSE << >>) \o <<")">>
      [] OTHER -> <<"<repr>">>

(***************************************************************************)
(* Bounds of the inputs.                                                   *)
(***************************************************************************)
MaxDomains == 2
MaxMsgs == 2
MaxAnn == 2
DefaultMaxResults == 7

SeqsUpTo(S, n) == UNION {[1..k -> S] : k \in 0..n}

EnvValues == {PyNone, PyStr(<< >>), PyStr(<<"https://proj">>)}
EnvOk == [AI_PROJECT_ENDPOINT |-> PyStr(<<"https://proj">>),
          BING_CONNECTION_NAME_ENV |-> PyStr(<<"bing-conn">>)]
Environs ==
    {EnvOk} \cup
    [AI_PROJECT_ENDPOINT : EnvValues,
     BING_CONNECTION_NAME_ENV : {PyNone, PyStr(<< >>), PyStr(<<"bing-conn">>)}]

Queries == {PyStr(<<"solar">>), PyStr(<<"solar", " ", "power">>)}
DomainNames == {PyStr(<<"a.com">>), PyStr(<<"b.com">>)}
DomainArgs ==
    {PyNone, PyStr(<< >>), PyStr(<<"a.com">>),
     PyTuple(<<PyStr(<<"a.com">>), PyStr(<<"b.com">>)>>)}
    \cup {PyList(l) : l \in SeqsUpTo(DomainNames, MaxDomains)}
ConstructorArgs == [query : Queries, query_domains : DomainArgs]
BaseArgs ==
    {[query |-> PyStr(<<"solar">>),
      query_domains |-> PyList(<<PyStr(<<"a.com">>), PyStr(<<"b.com">>)>>)]}
MaxResultsArgs == {0, DefaultMaxResults}

(***************************************************************************)
(* The objects the service returns.  The attribute-probing code of         *)
(* search() (getattr with a default, hasattr) is exercised by objects that *)
(* lack attributes.                                                        *)
(***************************************************************************)
NoAttrs == [x \in {} |-> PyNone]
Restrict(f, S) == [x \in S |-> f[x]]
\* an optional attribute: opt is {} (the object lacks it) or {its value}
AttrOpt(name, opt) == IF opt = {} THEN NoAttrs ELSE name :> (CHOOSE v \in opt : TRUE)

ScalarFields == {"type", "text", "start_index", "end_index"}
FullAnnotation ==
    [type |-> PyStr(<<"url_citation">>), text |-> PyStr(<<"[1]">>),
     start_index |-> PyInt(10), end_index |-> PyInt(14)]
FullCitation == [url |-> PyStr(<<"https://a.com/x">>), title |-> PyStr(<<"A">>)]
Citation(missing) == PyObj(Restrict(FullCitation, {"url", "title"} \ missing))
CitationOpts ==
    {{}, {PyNone}} \cup {{Citation(m)} : m \in SUBSET {"url", "title"}}
Annotation(missing, citation) ==
    PyObj(Restrict(FullAnnotation, ScalarFields \ missing)
          @@ AttrOpt("url_citation", citation))
AnnotationShapes ==
    {Annotation({f}, {Citation({})}) : f \in ScalarFields}
    \cup {Annotation({}, c) : c \in CitationOpts}
    \cup {Annotation(ScalarFields, {})}
\* the annotations attribute of a text: absent, None, or a list
AnnotationsOpts ==
    {{}, {PyNone}} \cup {{PyList(l)} : l \in SeqsUpTo(AnnotationShapes, MaxAnn)}

Roles == {"assistant", "user", "norole"}
TextKinds == {"notext", "None", "novalue", "value"}
MessageShapes == [role : Roles, text : TextKinds]
MessageId(i) == PyStr(<<"msg", i>>)
\* the message at place i of a thread
Message(i, shape, annotations) ==
    PyObj(("id" :> MessageId(i))
          @@ (IF shape.role = "norole" THEN NoAttrs
              ELSE "role" :> PyStr(<<shape.role>>))
          @@ (CASE shape.text = "notext" -> NoAttrs
                [] shape.text = "None" -> "text" :> PyNone
                [] shape.text = "novalue" -> "text" :> PyObj(NoAttrs)
                [] shape.text = "value" ->
                     "text" :> PyObj(("value" :> PyStr(<<"answer", i>>))
                                     @@ AttrOpt("annotations", annotations))))
BasicAnnotations == {PyList(<<Annotation({}, {Citation({})})>>)}
\* threads of every shape, their texts carrying one full annotation
OutlineThreads ==
    {[i \in DOMAIN shapes |-> Message(i, shapes[i], BasicAnnotations)] :
        shapes \in SeqsUpTo(MessageShapes, MaxMsgs)}
\* the user's message and the assistant's answer, with every annotation list
AnnotatedThreads ==
    {<<Message(1, [role |-> "user", text |-> "value"], {}),
       Message(2, [role |-> "assistant", text |-> "value"], a)>> :
        a \in AnnotationsOpts}
BaseThreads ==
    {<< >>,
     <<Message(1, [role |-> "user", text |-> "value"], {}),
       Message(2, [role |-> "assistant", text |-> "value"], BasicAnnotations)>>}
ThreadContents == OutlineThreads \cup AnnotatedThreads

NoSelf ==
    [query |-> PyNone, query_domains |-> PyNone, project_endpoint |-> PyNone,
     bing_connection_name |-> PyNone]
\* the frame of search() before the call: nothing bound, nothing issued
IdleCall ==
    [pc |-> "idle", max_results |-> DefaultMaxResults, query |-> << >>,
     agent |-> PyNone, thread |-> PyNone, run |-> PyNone, messages |-> << >>,
     last_msg |-> PyNone, response_list |-> << >>,
     pending |-> "none", retval |-> << >>,
     result |-> << >>, escaped |-> FALSE,
     ops |-> << >>, log |-> << >>, raised |-> << >>]

(***************************************************************************)
(* The initial states: the interpreter before BingSearch(...) is called.   *)
(* The inputs vary one family at a time around a base case: the            *)
(* environment, the constructor's arguments, the content of the thread.    *)
(***************************************************************************)
Init ==
    /\ \/ /\ environ \in Environs
          /\ args \in BaseArgs
          /\ thread_content \in BaseThreads
       \/ /\ environ = EnvOk
          /\ args \in ConstructorArgs
          /\ thread_content \in BaseThreads
       \/ /\ environ = EnvOk
          /\ args \in BaseArgs
          /\ thread_content \in ThreadContents
    /\ state = "start"
    /\ self = NoSelf
    /\ collaborators = << >>
    /\ call = IdleCall

\* os.environ.get(name)
EnvironGet(name) == environ[name]

(***************************************************************************)
(* BingSearch.__init__                                                     *)
(***************************************************************************)
\* the check failing only when both settings are missing
ConfigBothMissing(project_endpoint, bing_connection_name) ==
    ~Truthy(project_endpoint) /\ ~Truthy(bing_connection_name)

ConfigMissing(project_endpoint, bing_connection_name) ==
    ~Truthy(project_endpoint) \/ ~Truthy(bing_connection_name)

Construct ==
    /\ state = "start"
    /\ LET project_endpoint == EnvironGet("AI_PROJECT_ENDPOINT")
           bing_connection_name == EnvironGet("BING_CONNECTION_NAME_ENV")
           fields == [query |-> args.query,
                      query_domains |-> IF Truthy(args.query_domains)
                                        THEN args.query_domains ELSE PyNone,
                      project_endpoint |-> project_endpoint,
                      bing_connection_name |-> bing_connection_name]
       IN  /\ self' = fields
           /\ IF ConfigMissing(project_endpoint, bing_connection_name)
              THEN /\ state' = "config_error"
                   /\ collaborators' = collaborators
              ELSE /\ state' = "constructed"
                   /\ collaborators' = collaborators \o
                          <<"DefaultAzureCredential", "DefaultAzureCredential",
                            "AIProjectClient", "BingGroundingTool">>
    /\ UNCHANGED <<environ, args, thread_content, call>>


(***************************************************************************)
(* BingSearch.search.  The frame `call` holds the locals of search(), the  *)
(* remote operations issued so far (ops) and what the service answered to  *)
(* each step (log) and the steps that raised (raised).  pending and retval *)
(* are the return or exception on its way out of the with block; result    *)
(* and escaped are what the caller gets.                                   *)
(***************************************************************************)
AgentIds == {"asst_1", "asst_2"}
ThreadId == "thread_1"
RunStatuses == {"completed", "failed", "expired"}
Ok == [kind |-> "ok"]
Raises == [kind |-> "raise"]
CallOutcomes == {Ok, Raises}
CreateAgentOutcomes == {Raises} \cup {[kind |-> "ok", id |-> i] : i \in AgentIds}
RunOutcomes == {Raises} \cup {[kind |-> "ok", status |-> st] : st \in RunStatuses}

\* the site: terms joined by a plain space
BuildQuerySpaceJoined(query, query_domains) ==
    IF Truthy(query_domains)
    THEN IF query_domains.py = "list"
         THEN LET domains == [i \in DOMAIN query_domains.items |->
                                 <<"site:">> \o Format(query_domains.items[i])]
              IN  query.s \o <<" ">> \o Join(<<" ">>, domains)
         ELSE query.s \o <<" ", "site:">> \o Format(query_domains)
    ELSE query.s

\* filters that are not a list left out of the query
BuildQueryListsOnly(query, query_domains) ==
    IF Truthy(query_domains) /\ query_domains.py = "list"
    THEN LET domains == [i \in DOMAIN query_domains.items |->
                            <<"site:">> \o Format(query_domains.items[i])]
         IN  query.s \o <<" ">> \o Join(<<" OR ">>, domains)
    ELSE query.s

\* lines 48-54: the query text
BuildQuery(query, query_domains) ==
    IF Truthy(query_domains)
    THEN IF query_domains.py = "list"
         THEN LET domains == [i \in DOMAIN query_domains.items |->
                                 <<"site:">> \o Format(query_domains.items[i])]
              IN  query.s \o <<" ">> \o Join(<<" OR ">>, domains)
         ELSE query.s \o <<" ", "site:">> \o Format(query_domains)
    ELSE query.s

\* lines 46-56: search(max_results) up to the try
SearchEntry(max_results) ==
    [IdleCall EXCEPT !.pc = "enter",
                     !.max_results = max_results,
                     !.query = BuildQuery(self.query, self.query_domains)]

\* the handler letting the exception go on to the caller
HandlerReraise(c) == [c EXCEPT !.pc = "done", !.pending = "none", !.escaped = TRUE]

\* lines 144-146: except Exception: log and return []
Handler(c) == [c EXCEPT !.pc = "done", !.pending = "none", !.result = << >>]

\* an exception raised in the body of the with block leaves through __exit__
RaiseInWith(c, step) ==
    [c EXCEPT !.pc = "exit", !.pending = "exception", !.raised = Append(@, step)]

\* a return statement in the body of the with block leaves through __exit__
ReturnInWith(c, value) == [c EXCEPT !.pc = "exit", !.pending = "return", !.retval = value]

Answered(c, step, o) == [c EXCEPT !.log = Append(@, [step |-> step, outcome |-> o])]

\* a remote operation is issued and the service answers o
Issue(c, op, o) == Answered([c EXCEPT !.ops = Append(@, op)], op.op, o)

\* line 58: with self.project_client as client (__enter__)
EnterContextStep(c, o) ==
    LET d == Answered(c, "enter", o)
    IN  IF o.kind = "raise" THEN Handler([d EXCEPT !.raised = Append(@, "enter")])
        ELSE [d EXCEPT !.pc = "create_agent"]

\* lines 62-68
CreateAgentStep(c, o) ==
    LET d == Issue(c, [op |-> "create_agent"], o)
    IN  IF o.kind = "raise" THEN RaiseInWith(d, "create_agent")
        ELSE [d EXCEPT !.pc = "create_thread",
                       !.agent = PyObj([id |-> PyStr(<<o.id>>)])]

\* the thread creation tried a second time when it raises
CreateThreadRetrying(c, o) ==
    LET d == Issue(c, [op |-> "threads.create"], o)
    IN  IF o.kind = "raise"
        THEN RaiseInWith(Issue(d, [op |-> "threads.create"], o), "threads.create")
        ELSE [d EXCEPT !.pc = "send_message",
                       !.thread = PyObj([id |-> PyStr(<<ThreadId>>)])]

\* lines 71-72
CreateThreadStep(c, o) ==
    LET d == Issue(c, [op |-> "threads.create"], o)
    IN  IF o.kind = "raise" THEN RaiseInWith(d, "threads.create")
        ELSE [d EXCEPT !.pc = "send_message",
                       !.thread = PyObj([id |-> PyStr(<<ThreadId>>)])]

\* the exception of sending the message swallowed, the call going on
SendMessageSwallowing(c, o) ==
    LET d == Issue(c, [op |-> "messages.create", thread_id |-> c.thread.attrs["id"],
                       role |-> "user", content |-> c.query], o)
    IN  IF o.kind = "raise"
        THEN [d EXCEPT !.pc = "run", !.raised = Append(@, "messages.create")]
        ELSE [d EXCEPT !.pc = "run"]

\* lines 74-78
SendMessageStep(c, o) ==
    LET d == Issue(c, [op |-> "messages.create", thread_id |-> c.thread.attrs["id"],
                       role |-> "user", content |-> c.query], o)
    IN  IF o.kind = "raise" THEN RaiseInWith(d, "messages.create")
        ELSE [d EXCEPT !.pc = "run"]

\* the run's status not looked at
RunAgentIgnoringStatus(c, o) ==
    LET d == Issue(c, [op |-> "runs.create_and_process",
                       thread_id |-> c.thread.attrs["id"],
                       agent_id |-> c.agent.attrs["id"]], o)
    IN  IF o.kind = "raise" THEN RaiseInWith(d, "runs.create_and_process")
        ELSE [d EXCEPT !.pc = "list_messages",
                       !.run = PyObj([status |-> PyStr(<<o.status>>)])]

\* lines 81-89
RunAgentStep(c, o) ==
    LET d == Issue(c, [op |-> "runs.create_and_process",
                       thread_id |-> c.thread.attrs["id"],
                       agent_id |-> c.agent.attrs["id"]], o)
    IN  IF o.kind = "raise" THEN RaiseInWith(d, "runs.create_and_process")
        ELSE LET e == [d EXCEPT !.run = PyObj([status |-> PyStr(<<o.status>>)])]
             IN  IF o.status = "failed"
                 THEN ReturnInWith(e, << >>)
                 ELSE [e EXCEPT !.pc = "list_messages"]

\* line 91
ListMessagesStep(c, o) ==
    LET d == Issue(c, [op |-> "messages.list", thread_id |-> c.thread.attrs["id"]], o)
    IN  IF o.kind = "raise" THEN RaiseInWith(d, "messages.list")
        ELSE [d EXCEPT !.pc = "extract", !.messages = thread_content]

\* lines 93-97: the first assistant message met from the end of the list
RECURSIVE ScanReversed(_, _)
ScanReversed(messages, i) ==
    IF i = 0 THEN PyNone
    ELSE IF GetAttr(messages[i], "role", PyNone) = PyStr(<<"assistant">>)
         THEN messages[i]
         ELSE ScanReversed(messages, i - 1)

\* the scan started at the front of the list
RECURSIVE ScanForward(_, _)
ScanForward(messages, i) ==
    IF i > Len(messages) THEN PyNone
    ELSE IF GetAttr(messages[i], "role", PyNone) = PyStr(<<"assistant">>)
         THEN messages[i]
         ELSE ScanForward(messages, i + 1)

FirstAssistant(messages) == ScanForward(messages, 1)

\* the last message, whoever wrote it
LastMessage(messages) == IF messages = << >> THEN PyNone ELSE messages[Len(messages)]

\* the scan going on past assistant messages that carry no text value
RECURSIVE ScanReversedForText(_, _)
ScanReversedForText(messages, i) ==
    IF i = 0 THEN PyNone
    ELSE IF /\ GetAttr(messages[i], "role", PyNone) = PyStr(<<"assistant">>)
            /\ HasAttr(messages[i], "text")
            /\ HasAttr(messages[i].attrs["text"], "value")
         THEN messages[i]
         ELSE ScanReversedForText(messages, i - 1)

LastAssistantWithText(messages) == ScanReversedForText(messages, Len(messages))

LastAssistant(messages) == ScanReversed(messages, Len(messages))

\* lines 108-124: one formatted annotation
FormatAnnotation(annotation) ==
    LET url_citation == GetAttr(annotation, "url_citation", PyNone)
        url == IF Truthy(url_citation) THEN GetAttr(url_citation, "url", PyNone)
               ELSE PyNone
        title == IF Truthy(url_citation) THEN GetAttr(url_citation, "title", PyNone)
                 ELSE PyNone
    IN  [type |-> GetAttr(annotation, "type", PyNone),
         text |-> GetAttr(annotation, "text", PyNone),
         start_index |-> GetAttr(annotation, "start_index", PyNone),
         end_index |-> GetAttr(annotation, "end_index", PyNone),
         url_citation |-> IF Truthy(url_citation)
                          THEN PyDict([url |-> url, title |-> title])
                          ELSE PyNone]

\* the loop keeping only the annotations that cite a url
FormatCitedAnnotations(items) ==
    LET cited == SelectSeq(items, LAMBDA a : Truthy(GetAttr(a, "url_citation", PyNone)))
    IN  [i \in DOMAIN cited |-> FormatAnnotation(cited[i])]

\* lines 105-124: the loop over the annotations
FormatAnnotations(items) == [i \in DOMAIN items |-> FormatAnnotation(items[i])]

\* line 101
HasTextValue(last_msg) ==
    /\ Truthy(last_msg)
    /\ HasAttr(last_msg, "text")
    /\ HasAttr(last_msg.attrs["text"], "value")

\* lines 93-133: the response, or the exception of iterating a non-list
ExtractStep(c) ==
    LET last_msg == LastAssistant(c.messages)
        d == [c EXCEPT !.last_msg = last_msg]
    IN  IF HasTextValue(last_msg)
        THEN LET text == last_msg.attrs["text"]
                 annotations == GetAttr(text, "annotations", PyList(<< >>))
             IN  IF annotations.py # "list" THEN RaiseInWith(d, "extract")
                 ELSE [d EXCEPT !.pc = "delete_agent",
                         !.response_list =
                            <<[type |-> PyStr(<<"text">>),
                               text |-> [value |-> text.attrs["value"],
                                         annotations |->
                                            FormatAnnotations(annotations.items)]]>>]
        ELSE [d EXCEPT !.pc = "delete_agent"]

\* the response cut to max_results entries
ReturnedUpToMax(c) ==
    SubSeq(c.response_list, 1,
           IF c.max_results < Len(c.response_list) THEN c.max_results
           ELSE Len(c.response_list))

\* line 143: return response_list
Returned(c) == c.response_list

\* the deletion without its own try: its exception leaves the with block
DeleteAgentUnguarded(c, o) ==
    LET d == Issue(c, [op |-> "delete_agent", agent_id |-> c.agent.attrs["id"]], o)
    IN  IF o.kind = "raise" THEN RaiseInWith(d, "delete_agent")
        ELSE ReturnInWith(d, c.response_list)

\* the deletion of the agent of the commented-out get_agent at line 61
DeleteAgentFixedId(c, o) ==
    LET d == Issue(c, [op |-> "delete_agent",
                       agent_id |-> PyStr(<<"asst_Y9foDfJksj66HXjyJpEbShuR">>)], o)
        e == IF o.kind = "raise"
             THEN [d EXCEPT !.raised = Append(@, "delete_agent")]
             ELSE d
    IN  ReturnInWith(e, c.response_list)

\* lines 136-143: delete the agent, whatever it answers, then return
DeleteAgentStep(c, o) ==
    LET d == IF c.agent # PyNone
             THEN Issue(c, [op |-> "delete_agent", agent_id |-> c.agent.attrs["id"]], o)
             ELSE c
        e == IF c.agent # PyNone /\ o.kind = "raise"
             THEN [d EXCEPT !.raised = Append(@, "delete_agent")]
             ELSE d
    IN  ReturnInWith(e, Returned(e))

\* line 58 (__exit__), then line 143, or lines 144-146
ExitContextStep(c, o) ==
    LET d == Answered(c, "exit", o)
        e == IF o.kind = "raise" THEN [d EXCEPT !.raised = Append(@, "exit")] ELSE d
    IN  IF o.kind = "ok" /\ c.pending = "return"
        THEN [e EXCEPT !.pc = "done", !.pending = "none", !.result = c.retval]
        ELSE Handler(e)

Search ==
    /\ state = "constructed"
    /\ call.pc = "idle"
    /\ \E max_results \in MaxResultsArgs : call' = SearchEntry(max_results)
    /\ UNCHANGED <<environ, args, thread_content, state, self, collaborators>>

EnterContext ==
    /\ call.pc = "enter"
    /\ \E o \in CallOutcomes : call' = EnterContextStep(call, o)
    /\ UNCHANGED <<environ, args, thread_content, state, self, collaborators>>

CreateAgent ==
    /\ call.pc = "create_agent"
    /\ \E o \in CreateAgentOutcomes : call' = CreateAgentStep(call, o)
    /\ UNCHANGED <<environ, args, thread_content, state, self, collaborators>>

CreateThread ==
    /\ call.pc = "create_thread"
    /\ \E o \in CallOutcomes : call' = CreateThreadStep(call, o)
    /\ UNCHANGED <<environ, args, thread_content, state, self, collaborators>>

SendMessage ==
    /\ call.pc = "send_message"
    /\ \E o \in CallOutcomes : call' = SendMessageStep(call, o)
    /\ UNCHANGED <<environ, args, thread_content, state, self, collaborators>>

RunAgent ==
    /\ call.pc = "run"
    /\ \E o \in RunOutcomes : call' = RunAgentStep(call, o)
    /\ UNCHANGED <<environ, args, thread_content, state, self, collaborators>>

ListMessages ==
    /\ call.pc = "list_messages"
    /\ \E o \in CallOutcomes : call' = ListMessagesStep(call, o)
    /\ UNCHANGED <<environ, args, thread_content, state, self, collaborators>>

ExtractResponse ==
    /\ call.pc = "extract"
    /\ call' = ExtractStep(call)
    /\ UNCHANGED <<environ, args, thread_content, state, self, collaborators>>

DeleteAgent ==
    /\ call.pc = "delete_agent"
    /\ \E o \in CallOutcomes : call' = DeleteAgentStep(call, o)
    /\ UNCHANGED <<environ, args, thread_content, state, self, collaborators>>

ExitContext ==
    /\ call.pc = "exit"
    /\ \E o \in CallOutcomes : call' = ExitContextStep(call, o)
    /\ UNCHANGED <<environ, args, thread_content, state, self, collaborators>>

Next ==
    \/ Construct
    \/ Search
    \/ EnterContext
    \/ CreateAgent
    \/ CreateThread
    \/ SendMessage
    \/ RunAgent
    \/ ListMessages
    \/ ExtractResponse
    \/ DeleteAgent
    \/ ExitContext

Spec == Init /\ [][Next]_vars

(***************************************************************************)
(* The same call against the same answers of the service: search() is run  *)
(* again from its entry with the given argument, the service answering     *)
(* each step as `answers` says.                                            *)
(***************************************************************************)
StepWith(c, o) ==
    CASE c.pc = "enter" -> EnterContextStep(c, o)
      [] c.pc = "create_agent" -> CreateAgentStep(c, o)
      [] c.pc = "create_thread" -> CreateThreadStep(c, o)
      [] c.pc = "send_message" -> SendMessageStep(c, o)
      [] c.pc = "run" -> RunAgentStep(c, o)
      [] c.pc = "list_messages" -> ListMessagesStep(c, o)
      [] c.pc = "delete_agent" -> DeleteAgentStep(c, o)
      [] c.pc = "exit" -> ExitContextStep(c, o)

RECURSIVE Replay(_, _)
Replay(c, answers) ==
    IF c.pc = "done" THEN c
    ELSE IF c.pc = "extract" THEN Replay(ExtractStep(c), answers)
    ELSE IF answers = << >> THEN c
    ELSE Replay(StepWith(c, Head(answers)), Tail(answers))

AnswersOf(c) == [i \in DOMAIN c.log |-> c.log[i].outcome]

Count(ops, name) == Cardinality({i \in DOMAIN ops : ops[i].op = name})
RaisedAt(c, step) == \E i \in DOMAIN c.raised : c.raised[i] = step
AnsweredOk(c, step) ==
    \E i \in DOMAIN c.log : c.log[i].step = step /\ c.log[i].outcome.kind = "ok"
Done == call.pc = "done"
AgentCreated(c) == AnsweredOk(c, "create_agent")
RunFailed(c) == c.run # PyNone /\ c.run.attrs["status"] = PyStr(<<"failed">>)

(***************************************************************************)
(* C1.  In every call of search() in which create_agent returned, when the *)
(* call has returned delete_agent has been attempted exactly once: after a *)
(* failed run, a successful run, and an exception of any later step.       *)
(***************************************************************************)
C1_DeleteOnEveryExit ==
    Done /\ AgentCreated(call) => Count(call.ops, "delete_agent") = 1

(***************************************************************************)
(* C2.  If a step of search() raises (entering the client context,         *)
(* create_agent, thread creation, message send, run, message listing,      *)
(* extraction), search() returns the empty sequence and no exception       *)
(* escapes.                                                                *)
(***************************************************************************)
RaisingSteps ==
    {"enter", "create_agent", "threads.create", "messages.create",
     "runs.create_and_process", "messages.list", "extract"}

C2_ExceptionGivesEmpty ==
    Done /\ (\E st \in RaisingSteps : RaisedAt(call, st))
        => call.result = << >> /\ ~call.escaped

C2_Witness == Done /\ RaisedAt(call, "extract") /\ call.result = << >>

(***************************************************************************)
(* C3.  If the run ends with status "failed", search() never lists the     *)
(* thread's messages nor extracts a response, and returns the empty        *)
(* sequence without raising.                                               *)
(***************************************************************************)
C3_FailedRunGivesEmpty ==
    RunFailed(call) =>
        /\ call.pc \in {"exit", "done"}
        /\ Count(call.ops, "messages.list") = 0
        /\ call.last_msg = PyNone /\ call.response_list = << >>
        /\ Done => call.result = << >> /\ ~call.escaped

C3_Witness == Done /\ RunFailed(call) /\ thread_content # << >>

(***************************************************************************)
(* C4.  If delete_agent raises, no exception escapes and search() returns  *)
(* what it returns when, everything else the same, delete_agent succeeds:  *)
(* in particular the extracted response.                                   *)
(***************************************************************************)
DeletionSucceeds(answers, log) ==
    [i \in DOMAIN answers |->
        IF log[i].step = "delete_agent" THEN Ok ELSE answers[i]]

C4_DeleteFailureIsSilent ==
    Done /\ RaisedAt(call, "delete_agent") =>
        LET twin == Replay(SearchEntry(call.max_results),
                           DeletionSucceeds(AnswersOf(call), call.log))
        IN  /\ twin.pc = "done"
            /\ ~RaisedAt(twin, "delete_agent")
            /\ call.result = twin.result
            /\ ~call.escaped
            /\ (~RaisedAt(call, "exit") => call.result = call.response_list)

C4_Witness == Done /\ RaisedAt(call, "delete_agent") /\ call.result # << >>

(***************************************************************************)
(* C5.  The text sent as the user message is the base query, one space,    *)
(* and the terms site:<d> of the domain filters in their order with " OR " *)
(* between them, when the filters are a non-empty list; it is the base     *)
(* query itself when the filters are absent or an empty list.              *)
(***************************************************************************)
SentTexts == {call.ops[i].content : i \in {j \in DOMAIN call.ops :
                                             call.ops[j].op = "messages.create"}}

\* text is base, " ", then per filter "site:", the filter, and " OR " between
IsFilteredQuery(text, base, filters) ==
    LET n == Len(filters)
        b == Len(base)
    IN  /\ Len(text) = b + 1 + (3 * n - 1)
        /\ SubSeq(text, 1, b) = base
        /\ text[b + 1] = " "
        /\ \A i \in 1..n :
              /\ text[b + 1 + 3 * i - 2] = "site:"
              /\ <<text[b + 1 + 3 * i - 1]>> = filters[i].s
              /\ i < n => text[b + 1 + 3 * i] = " OR "

C5_SentQueryText ==
    \A text \in SentTexts :
        LET d == args.query_domains
        IN  /\ d.py = "list" /\ d.items # << >>
                => IsFilteredQuery(text, args.query.s, d.items)
            /\ d = PyNone \/ d = PyList(<< >>) => text = args.query.s

C5_Witness ==
    /\ SentTexts # {}
    /\ args.query_domains.py = "list"
    /\ Len(args.query_domains.items) = 2
    /\ Len(args.query.s) > 1

(***************************************************************************)
(* C6.  If the run does not fail and no listed message has the role        *)
(* "assistant" (an empty list included), search() returns the empty        *)
(* sequence.                                                               *)
(***************************************************************************)
Listed(c) == AnsweredOk(c, "messages.list")
AssistantPlaces(messages) ==
    {i \in DOMAIN messages :
        /\ "role" \in DOMAIN messages[i].attrs
        /\ messages[i].attrs["role"] = PyStr(<<"assistant">>)}

C6_NoAssistantGivesEmpty ==
    Listed(call) /\ AssistantPlaces(call.messages) = {} =>
        /\ call.response_list = << >>
        /\ call.retval = << >>
        /\ call.result = << >>
        /\ ~call.escaped

C6_Witness ==
    /\ Done /\ Listed(call) /\ call.raised = << >>
    /\ AssistantPlaces(call.messages) = {}
    /\ \E i \in DOMAIN call.messages : HasTextValue(call.messages[i])

(***************************************************************************)
(* C7.  When the run does not fail, the message whose text is returned is  *)
(* the assistant message that is last in the list the service returned;    *)
(* messages of other roles and earlier assistant messages do not           *)
(* contribute.                                                             *)
(***************************************************************************)
Max(S) == CHOOSE x \in S : \A y \in S : y <= x
Extracted(c) == Listed(c) /\ c.pc # "extract"

C7_LastAssistantSelected ==
    Extracted(call) =>
        LET places == AssistantPlaces(call.messages)
        IN  /\ places = {} => call.last_msg = PyNone
            /\ places # {} => call.last_msg = call.messages[Max(places)]
            /\ \A i \in DOMAIN call.result :
                  /\ places # {}
                  /\ call.result[i].text.value
                        = call.messages[Max(places)].attrs["text"].attrs["value"]

C7_Witness ==
    /\ Done /\ call.result # << >>
    /\ Cardinality(AssistantPlaces(call.messages)) = 2
    /\ \A i \in DOMAIN call.messages : HasTextValue(call.messages[i])

(***************************************************************************)
(* C8.  For the selected assistant message the output has one annotation   *)
(* entry per input annotation, in the same order; an annotation without    *)
(* url_citation gives an entry whose url_citation is null, and an absent   *)
(* type, text, start_index, end_index, url or title gives null in its      *)
(* place, without raising and without emptying the result.                 *)
(***************************************************************************)
\* the value of an attribute, null when the object lacks it
OrNull(object, name) ==
    IF name \in DOMAIN object.attrs THEN object.attrs[name] ELSE PyNone

\* the annotations of a message with a text value are a list, or absent
InputAnnotations(message) ==
    LET text == message.attrs["text"]
    IN  IF "annotations" \in DOMAIN text.attrs THEN text.attrs["annotations"]
        ELSE PyList(<< >>)

IsEntryOf(entry, annotation) ==
    /\ \A f \in ScalarFields : entry[f] = OrNull(annotation, f)
    /\ LET cites == /\ "url_citation" \in DOMAIN annotation.attrs
                    /\ annotation.attrs["url_citation"] # PyNone
       IN  /\ ~cites => entry.url_citation = PyNone
           /\ cites =>
                /\ entry.url_citation.py = "dict"
                /\ entry.url_citation.d.url =
                      OrNull(annotation.attrs["url_citation"], "url")
                /\ entry.url_citation.d.title =
                      OrNull(annotation.attrs["url_citation"], "title")

NothingRaised(c) == \A i \in DOMAIN c.raised : c.raised[i] = "delete_agent"

C8_AnnotationsMappedInOrder ==
    /\ \A r \in DOMAIN call.result :
          LET input == InputAnnotations(call.last_msg).items
              output == call.result[r].text.annotations
          IN  /\ Len(output) = Len(input)
              /\ \A i \in DOMAIN input : IsEntryOf(output[i], input[i])
    /\ /\ Done /\ NothingRaised(call) /\ Extracted(call)
       /\ HasTextValue(call.last_msg)
       /\ InputAnnotations(call.last_msg).py = "list"
       => Len(call.result) = 1

C8_Witness ==
    /\ Done /\ call.result # << >>
    /\ LET input == InputAnnotations(call.last_msg).items
       IN  /\ Len(input) = 2
           /\ "url_citation" \notin DOMAIN input[1].attrs
           /\ "url_citation" \in DOMAIN input[2].attrs
           /\ "type" \notin DOMAIN input[1].attrs

(***************************************************************************)
(* C9.  Constructing BingSearch fails when the project endpoint or the     *)
(* Bing connection name is missing or empty; then no credential, client or *)
(* grounding tool is created and no remote operation is ever issued.  With *)
(* both present it succeeds, and issues no remote operation itself.        *)
(***************************************************************************)
Unset(value) == value = PyNone \/ value = PyStr(<< >>)

C9_ConstructionNeedsSettings ==
    /\ state # "start" =>
          (state = "config_error" <=>
              \/ Unset(environ.AI_PROJECT_ENDPOINT)
              \/ Unset(environ.BING_CONNECTION_NAME_ENV))
    /\ state = "config_error" =>
          collaborators = << >> /\ call = IdleCall
    /\ state = "constructed" =>
          /\ "AIProjectClient" \in {collaborators[i] : i \in DOMAIN collaborators}
          /\ call.pc = "idle" => call.ops = << >>

C9_Witness ==
    /\ state = "config_error"
    /\ ~Unset(environ.AI_PROJECT_ENDPOINT)
    /\ environ.BING_CONNECTION_NAME_ENV = PyStr(<< >>)

(***************************************************************************)
(* C10.  With the same query, domain filters and answers of the service,   *)
(* search() returns the same value and issues the same remote operations   *)
(* for every max_results.                                                  *)
(***************************************************************************)
C10_MaxResultsIgnored ==
    Done =>
        \A max_results \in MaxResultsArgs :
            LET twin == Replay(SearchEntry(max_results), AnswersOf(call))
            IN  /\ twin.pc = "done"
                /\ twin.result = call.result
                /\ twin.escaped = call.escaped
                /\ twin.ops = call.ops
                /\ twin.log = call.log

C10_Witness ==
    /\ Done /\ call.result # << >>
    /\ call.max_results = 0
    /\ call.result[1].text.annotations # << >>

(***************************************************************************)
(* C11.  Within one call of search() the remote operations are issued in   *)
(* the order create_agent, create thread, send user message, run agent,    *)
(* list messages, delete_agent, each at most once, and each only after the *)
(* one before it has returned.                                             *)
(***************************************************************************)
OperationOrder ==
    <<"create_agent", "threads.create", "messages.create",
      "runs.create_and_process", "messages.list", "delete_agent">>

\* the answers of the service to the operation issued at place i of ops
AnswersTo(c, i) ==
    {c.log[j].outcome : j \in {k \in DOMAIN c.log : c.log[k].step = c.ops[i].op}}

LaterSteps ==
    {"threads.create", "messages.create", "runs.create_and_process", "messages.list"}

\* the places of the log where the service answered with an exception
RaisePlaces(c) == {i \in DOMAIN c.log : c.log[i].outcome.kind = "raise"}

NothingIssuedAfter(c, i) ==
    \A j \in DOMAIN c.log : j > i => c.log[j].step \notin LaterSteps

\* the claim as stated: whichever step raised
C12_AnyFailureGivesEmpty ==
    /\ \A i \in RaisePlaces(call) : NothingIssuedAfter(call, i)
    /\ call.raised # << >> =>
          /\ call.pc \in {"exit", "done"}
          /\ Done => call.result = << >> /\ ~call.escaped

C12_FailureShortCircuits ==
    /\ \A i \in RaisePlaces(call) : NothingIssuedAfter(call, i)
    /\ call.raised # << >> =>
          /\ call.pc \in {"exit", "done"}
          /\ Count(call.ops, "messages.list") = 1
                => call.raised[1] \in {"messages.list", "extract", "delete_agent", "exit"}
          /\ Done /\ ~NothingRaised(call) => call.result = << >> /\ ~call.escaped

C12_Witness ==
    /\ Done /\ RaisedAt(call, "messages.create")
    /\ Count(call.ops, "runs.create_and_process") = 0
    /\ call.result = << >>

(***************************************************************************)
(* C13.  delete_agent is never issued in a call of search() in which       *)
(* create_agent did not return (it raised or was not reached), and when    *)
(* issued it names the id of the agent created in that call.               *)
(***************************************************************************)
\* the ids create_agent returned in this call
CreatedIds(c) ==
    {c.log[i].outcome.id : i \in {j \in DOMAIN c.log :
                                     /\ c.log[j].step = "create_agent"
                                     /\ c.log[j].outcome.kind = "ok"}}

DeletePlaces(c) == {i \in DOMAIN c.ops : c.ops[i].op = "delete_agent"}

C13_DeleteOnlyCreatedAgent ==
    \A i \in DeletePlaces(call) :
        /\ CreatedIds(call) # {}
        /\ \E j \in 1..(i - 1) : call.ops[j].op = "create_agent"
        /\ \E id \in CreatedIds(call) : call.ops[i].agent_id = PyStr(<<id>>)

C13_Witness ==
    /\ Done
    /\ \E i \in DeletePlaces(call) : call.ops[i].agent_id = PyStr(<<"asst_2">>)

(***************************************************************************)
(* C14.  Every value returned by search() is a sequence of length 0 or 1.  *)
(* It has length 1 only if create_agent, thread creation, message send,    *)
(* the run and message listing all succeeded, the run's status was not     *)
(* "failed", and the last assistant message carries a text value; when     *)
(* that message lacks a text value the result is empty, even if an earlier *)
(* assistant message has one.                                              *)
(***************************************************************************)
\* the message has a text attribute that is an object with a value attribute
CarriesTextValue(message) ==
    /\ "text" \in DOMAIN message.attrs
    /\ message.attrs["text"].py = "object"
    /\ "value" \in DOMAIN message.attrs["text"].attrs

C14_ResultShape ==
    LET places == AssistantPlaces(call.messages)
    IN  /\ Len(call.result) \in {0, 1}
        /\ Len(call.result) = 1 =>
              /\ Done
              /\ \A step \in {"create_agent", "threads.create", "messages.create",
                              "runs.create_and_process", "messages.list"} :
                    AnsweredOk(call, step)
              /\ ~RunFailed(call)
              /\ places # {}
              /\ CarriesTextValue(call.messages[Max(places)])
        /\ /\ Extracted(call) /\ places # {}
           /\ ~CarriesTextValue(call.messages[Max(places)])
           => call.response_list = << >> /\ call.result = << >>

C14_Witness ==
    /\ Done /\ call.raised = << >> /\ call.result = << >>
    /\ AssistantPlaces(call.messages) = {1, 2}
    /\ CarriesTextValue(call.messages[1])
    /\ ~CarriesTextValue(call.messages[2])

(***************************************************************************)
(* C15.  When the domain filters are one non-empty value d that is not a   *)
(* list (a string, say), the text sent as the user message is the base     *)
(* query, " site:" and d, with no " OR ".                                  *)
(***************************************************************************)
Occurrences(text, piece) == Cardinality({i \in DOMAIN text : text[i] = piece})

C15_SingleFilterText ==
    \A text \in SentTexts :
        LET d == args.query_domains
            b == Len(args.query.s)
            rest == SubSeq(text, b + 3, Len(text))
        IN  d.py \in {"str", "tuple"} /\ d # PyStr(<< >>) /\ d # PyTuple(<< >>) =>
                /\ SubSeq(text, 1, b) = args.query.s
                /\ Len(text) > b + 2
                /\ text[b + 1] = " " /\ text[b + 2] = "site:"
                /\ Occurrences(text, " OR ") = 0
                /\ Occurrences(rest, "site:") = 0
                /\ d.py = "str" => rest = d.s
                /\ d.py = "tuple" =>
                      /\ Head(rest) = "(" /\ rest[Len(rest)] = ")"
                      /\ \A i \in DOMAIN d.items :
                            \E k \in DOMAIN rest : <<rest[k]>> = d.items[i].s

C15_Witness ==
    /\ SentTexts # {}
    /\ args.query_domains = PyStr(<<"a.com">>)
    /\ Len(args.query.s) > 1
=============================================================================
